---- MODULE Spec2Model ----
(***************************************************************************)
(* A model of src/main.py of football_stats_project: the input validators, *)
(* the API fetch wrappers, the scoring function calculate_score, the       *)
(* comparator predict_winner and the interactive procedure main.           *)
(*                                                                         *)
(* Conventions.                                                            *)
(*  - A Python str is a sequence of one-character strings.                 *)
(*  - A Python dict is a function whose DOMAIN is its set of keys; the     *)
(*    empty dict and the empty list are both the empty function << >>.     *)
(*  - A score is held in half points (Unit half points = 1 point), since   *)
(*    the weights 0.5 and -0.5 have no value in Integers.  Every score the *)
(*    code computes from integer totals is a multiple of 0.5, so nothing   *)
(*    is lost.                                                             *)
(*  - A call that may raise returns a record whose field ok says whether   *)
(*    it returned normally.                                                *)
(***************************************************************************)
EXTENDS Integers, Sequences, FiniteSets, TLC

VARIABLES
    pc,               \* position of the procedure being run
    now,              \* datetime.now(): <<year, month, day, time of day>>
    date_str,         \* main: date_str
    date_check,       \* result of the last validate_date call
    leagues,          \* main: leagues
    league_options,   \* main: league_options (the ids)
    league_id,        \* main: league_id (0 before it is assigned)
    matches,          \* main: matches
    i,                \* main: index of the match being processed
    home_team_stats,  \* main / predict_winner: home_team_stats
    away_team_stats,  \* main / predict_winner: away_team_stats
    score,            \* result of the last calculate_score call
    prediction,       \* result of the last predict_winner call
    results,          \* per processed match: "prediction" or "not_available"
    requests,         \* number of requests issued, per endpoint
    exit_msg,         \* the message of the early return taken, or "none"
    fault             \* the exception that escaped main, or "none"

vars == <<pc, now, date_str, date_check, leagues, league_options, league_id,
          matches, i, home_team_stats, away_team_stats, score, prediction,
          results, requests, exit_msg, fault>>

(***************************************************************************)
(* Bounds of the model.                                                    *)
(***************************************************************************)
MaxFormLen == 2
MaxTotal == 2
MaxMatches == 2

(***************************************************************************)
(* Python primitives.                                                      *)
(***************************************************************************)
\* d.get(k, default)
Get(d, k, default) == IF k \in DOMAIN d THEN d[k] ELSE default

\* bool(x) for a dict, a list or a str
Truthy(x) == DOMAIN x # {}

\* s.replace(old, new) for a one-character old
RECURSIVE Replace(_, _, _)
Replace(s, old, new) ==
    IF s = << >> THEN << >>
    ELSE (IF Head(s) = old THEN new ELSE <<Head(s)>>) \o Replace(Tail(s), old, new)

\* s.split(): the maximal runs of non-blank characters; cur is the run being read
RECURSIVE SplitFrom(_, _)
SplitFrom(s, cur) ==
    IF s = << >> THEN (IF cur = << >> THEN << >> ELSE <<cur>>)
    ELSE IF Head(s) = " "
         THEN (IF cur = << >> THEN << >> ELSE <<cur>>) \o SplitFrom(Tail(s), << >>)
         ELSE SplitFrom(Tail(s), Append(cur, Head(s)))

Split(s) == SplitFrom(s, << >>)

DigitChars == <<"0", "1", "2", "3", "4", "5", "6", "7", "8", "9">>

IsDigit(c) == \E k \in 1..Len(DigitChars) : DigitChars[k] = c

DigitValue(c) == (CHOOSE k \in 1..Len(DigitChars) : DigitChars[k] = c) - 1

AllDigits(s) == \A k \in 1..Len(s) : IsDigit(s[k])

RECURSIVE DecimalValue(_)
DecimalValue(s) ==
    IF s = << >> THEN 0
    ELSE 10 * DecimalValue(SubSeq(s, 1, Len(s) - 1)) + DigitValue(s[Len(s)])

\* int(tok) for a token without blanks or underscores: an optional sign and
\* one or more decimal digits; anything else raises ValueError
PyInt(tok) ==
    LET signed == tok # << >> /\ Head(tok) \in {"-", "+"}
        digits == IF signed THEN Tail(tok) ELSE tok
    IN  IF digits # << >> /\ AllDigits(digits)
        THEN [ok |-> TRUE,
              val |-> IF signed /\ Head(tok) = "-"
                      THEN 0 - DecimalValue(digits) ELSE DecimalValue(digits)]
        ELSE [ok |-> FALSE, val |-> 0]

(***************************************************************************)
(* predict_winner.calculate_score                                          *)
(***************************************************************************)
Unit == 2

\* scoring_factors, in half points
scoring_factors ==
    [wins |-> 3 * Unit, draws |-> 1 * Unit, loses |-> (-1) * Unit,
     goals_for |-> 1, goals_against |-> -1]

\* form.replace('W', '3 ').replace('D', '1 ').replace('L', '-1 ').split()
RecentForm(form) ==
    Split(Replace(Replace(Replace(form, "W", <<"3", " ">>),
                          "D", <<"1", " ">>),
                  "L", <<"-", "1", " ">>))

RECURSIVE SumInts(_)
SumInts(toks) ==
    IF toks = << >> THEN 0 ELSE PyInt(Head(toks)).val + SumInts(Tail(toks))

\* sum([int(x) for x in recent_form]) if recent_form else 0, in points;
\* ok is FALSE when an int(x) raises ValueError
RecentScore(form) ==
    LET recent_form == RecentForm(form)
    IN  IF \E k \in 1..Len(recent_form) : ~PyInt(recent_form[k]).ok
        THEN [ok |-> FALSE, val |-> 0]
        ELSE [ok |-> TRUE, val |-> SumInts(recent_form)]

\* RecordComponent with the losses added instead of subtracted
RecordComponent_LosesAdded(fixtures) ==
    LET wins == Get(Get(fixtures, "wins", << >>), "total", 0)
        draws == Get(Get(fixtures, "draws", << >>), "total", 0)
        loses == Get(Get(fixtures, "loses", << >>), "total", 0)
    IN  wins * scoring_factors.wins + draws * scoring_factors.draws
        - loses * scoring_factors.loses

\* wins*3 + draws*1 + loses*(-1), in half points
RecordComponent(fixtures) ==
    LET wins == Get(Get(fixtures, "wins", << >>), "total", 0)
        draws == Get(Get(fixtures, "draws", << >>), "total", 0)
        loses == Get(Get(fixtures, "loses", << >>), "total", 0)
    IN  wins * scoring_factors.wins + draws * scoring_factors.draws
        + loses * scoring_factors.loses

\* goals_for*0.5 + goals_against*(-0.5), in half points
GoalsComponent(goals) ==
    LET goals_for ==
            Get(Get(Get(goals, "for", << >>), "total", << >>), "total", 0)
        goals_against ==
            Get(Get(Get(goals, "against", << >>), "total", << >>), "total", 0)
    IN  goals_for * scoring_factors.goals_for
        + goals_against * scoring_factors.goals_against

\* calculate_score without the recent-form component
calculate_score_NoForm(team_stats) ==
    LET form == Get(team_stats, "form", << >>)
        fixtures == Get(team_stats, "fixtures", << >>)
        goals == Get(team_stats, "goals", << >>)
        recent == RecentScore(form)
    IN  IF ~recent.ok THEN [ok |-> FALSE, val |-> 0, recent |-> 0]
        ELSE [ok |-> TRUE,
              val |-> RecordComponent(fixtures) + GoalsComponent(goals),
              recent |-> recent.val]

\* calculate_score(team_stats): ok is FALSE when it raises; val is the score
\* in half points and recent the recent-form component in points
calculate_score(team_stats) ==
    LET form == Get(team_stats, "form", << >>)
        fixtures == Get(team_stats, "fixtures", << >>)
        goals == Get(team_stats, "goals", << >>)
        recent == RecentScore(form)
    IN  IF ~recent.ok THEN [ok |-> FALSE, val |-> 0, recent |-> 0]
        ELSE [ok |-> TRUE,
              val |-> recent.val * Unit + RecordComponent(fixtures)
                      + GoalsComponent(goals),
              recent |-> recent.val]

(***************************************************************************)
(* predict_winner                                                          *)
(***************************************************************************)
\* PredictionText with equal scores going to the home team
PredictionText_HomeOnTie(home_score, away_score) ==
    IF home_score >= away_score
    THEN [outcome |-> "HOME_WIN", X |-> home_score, Y |-> away_score]
    ELSE IF away_score > home_score
         THEN [outcome |-> "AWAY_WIN", X |-> away_score, Y |-> home_score]
         ELSE [outcome |-> "DRAW", X |-> home_score, Y |-> away_score]

\* PredictionText printing the home score first in every branch
PredictionText_HomeFirst(home_score, away_score) ==
    IF home_score > away_score
    THEN [outcome |-> "HOME_WIN", X |-> home_score, Y |-> away_score]
    ELSE IF away_score > home_score
         THEN [outcome |-> "AWAY_WIN", X |-> home_score, Y |-> away_score]
         ELSE [outcome |-> "DRAW", X |-> home_score, Y |-> away_score]

\* The f-string chosen at lines 145-150: the outcome and the two numbers it
\* prints as "(X vs Y)"
PredictionText(home_score, away_score) ==
    IF home_score > away_score
    THEN [outcome |-> "HOME_WIN", X |-> home_score, Y |-> away_score]
    ELSE IF away_score > home_score
         THEN [outcome |-> "AWAY_WIN", X |-> away_score, Y |-> home_score]
         ELSE [outcome |-> "DRAW", X |-> home_score, Y |-> away_score]

NoPrediction == [ok |-> FALSE, outcome |-> "none", X |-> 0, Y |-> 0]

\* predict_winner(home_team_stats, away_team_stats): ok is FALSE when one of
\* the two calculate_score calls raises
predict_winner(home, away) ==
    LET home_score == calculate_score(home)
        away_score == calculate_score(away)
    IN  IF ~home_score.ok \/ ~away_score.ok THEN NoPrediction
        ELSE LET text == PredictionText(home_score.val, away_score.val)
             IN  [ok |-> TRUE, outcome |-> text.outcome, X |-> text.X, Y |-> text.Y]

(***************************************************************************)
(* Dates: datetime.strptime(s, '%Y-%m-%d'), strftime('%Y-%m-%d') and the   *)
(* comparison of datetimes.  A datetime is <<year, month, day, t>> with t  *)
(* the time elapsed since midnight.                                        *)
(***************************************************************************)
FloorYear == 2014
\* s.split(sep), empty fields kept; cur is the field being read
RECURSIVE SplitOnFrom(_, _, _)
SplitOnFrom(s, sep, cur) ==
    IF s = << >> THEN <<cur>>
    ELSE IF Head(s) = sep THEN <<cur>> \o SplitOnFrom(Tail(s), sep, << >>)
         ELSE SplitOnFrom(Tail(s), sep, Append(cur, Head(s)))

SplitOn(s, sep) == SplitOnFrom(s, sep, << >>)

\* s.strip() for blanks
RECURSIVE LStrip(_)
LStrip(s) == IF s # << >> /\ Head(s) = " " THEN LStrip(Tail(s)) ELSE s

RECURSIVE RStrip(_)
RStrip(s) ==
    IF s # << >> /\ s[Len(s)] = " " THEN RStrip(SubSeq(s, 1, Len(s) - 1)) ELSE s

Strip(s) == RStrip(LStrip(s))

LeapYear(y) == (y % 4 = 0 /\ y % 100 # 0) \/ y % 400 = 0

DaysInMonth(y, m) ==
    IF m = 2 THEN (IF LeapYear(y) THEN 29 ELSE 28)
    ELSE IF m \in {4, 6, 9, 11} THEN 30 ELSE 31

\* %Y: exactly four digits
YearField(f) == Len(f) = 4 /\ AllDigits(f)

\* %m: 1[0-2]|0[1-9]|[1-9]
MonthField(f) == Len(f) \in {1, 2} /\ AllDigits(f) /\ DecimalValue(f) \in 1..12

\* %d: 3[01]|[12]\d|0[1-9]|[1-9]| [1-9]
DayField(f) ==
    \/ Len(f) \in {1, 2} /\ AllDigits(f) /\ DecimalValue(f) \in 1..31
    \/ Len(f) = 2 /\ f[1] = " " /\ IsDigit(f[2]) /\ DigitValue(f[2]) >= 1

\* datetime.strptime(date_str, '%Y-%m-%d'): ok is FALSE when it raises
\* ValueError (no match of the format, a year before datetime.MINYEAR = 1, or
\* no such calendar day)
Strptime(s) ==
    LET f == SplitOn(s, "-")
    IN  IF Len(f) = 3 /\ YearField(f[1]) /\ MonthField(f[2]) /\ DayField(f[3])
        THEN LET y == DecimalValue(f[1])
                 m == DecimalValue(f[2])
                 d == DecimalValue(LStrip(f[3]))
             IN  IF y >= 1 /\ d <= DaysInMonth(y, m)
                 THEN [ok |-> TRUE, val |-> <<y, m, d, 0>>]
                 ELSE [ok |-> FALSE, val |-> <<0, 0, 0, 0>>]
        ELSE [ok |-> FALSE, val |-> <<0, 0, 0, 0>>]

\* the decimal digits of n, zero-padded to width
RECURSIVE Digits(_, _)
Digits(n, width) ==
    IF width = 0 THEN << >>
    ELSE Append(Digits(n \div 10, width - 1), DigitChars[(n % 10) + 1])

\* dt.strftime('%Y-%m-%d')
Strftime(dt) == Digits(dt[1], 4) \o <<"-">> \o Digits(dt[2], 2) \o <<"-">> \o Digits(dt[3], 2)

\* a > b for datetimes
Later(a, b) ==
    \E k \in 1..4 : a[k] > b[k] /\ \A j \in 1..(k - 1) : a[j] = b[j]

(***************************************************************************)
(* validate_date, validate_league_id                                       *)
(***************************************************************************)
\* validate_date rejecting a date equal to the current moment
validate_date_StrictNow(s, clock) ==
    LET date_obj == Strptime(s)
    IN  IF ~date_obj.ok
        THEN [ok |-> FALSE, msg |-> "INVALID_FORMAT", val |-> <<0, 0, 0, 0>>]
        ELSE IF ~Later(clock, date_obj.val)
        THEN [ok |-> FALSE, msg |-> "FUTURE_DATE", val |-> <<0, 0, 0, 0>>]
        ELSE IF Later(<<FloorYear, 1, 1, 0>>, date_obj.val)
        THEN [ok |-> FALSE, msg |-> "TOO_OLD", val |-> <<0, 0, 0, 0>>]
        ELSE [ok |-> TRUE, msg |-> "none", val |-> date_obj.val]

validate_date(s, clock) ==
    LET date_obj == Strptime(s)
    IN  IF ~date_obj.ok
        THEN [ok |-> FALSE, msg |-> "INVALID_FORMAT", val |-> <<0, 0, 0, 0>>]
        ELSE IF Later(date_obj.val, clock)
        THEN [ok |-> FALSE, msg |-> "FUTURE_DATE", val |-> <<0, 0, 0, 0>>]
        ELSE IF Later(<<FloorYear, 1, 1, 0>>, date_obj.val)
        THEN [ok |-> FALSE, msg |-> "TOO_OLD", val |-> <<0, 0, 0, 0>>]
        ELSE [ok |-> TRUE, msg |-> "none", val |-> date_obj.val]

validate_league_id(s) ==
    LET n == PyInt(s)
    IN  IF ~n.ok THEN [ok |-> FALSE, msg |-> "NOT_A_NUMBER", val |-> 0]
        ELSE IF n.val <= 0 THEN [ok |-> FALSE, msg |-> "NON_POSITIVE", val |-> 0]
        ELSE [ok |-> TRUE, msg |-> "none", val |-> n.val]

(***************************************************************************)
(* Inputs: team-statistics records as the API may return them.             *)
(***************************************************************************)
\* an optional value: the empty set, or the set of the one value
Opt(S) == {{}} \cup {{v} : v \in S}

TheValue(o) == CHOOSE v \in o : TRUE

\* {"total": n}, or {} with the total absent
TotalDicts == {<< >>} \cup {[total |-> n] : n \in 0..MaxTotal}

\* the dict of `fixtures`, each of wins, draws, loses present or absent
FixturesOf(w, d, l) ==
    [k \in {x \in {"wins", "draws", "loses"} :
               CASE x = "wins" -> w # {} [] x = "draws" -> d # {} [] OTHER -> l # {}}
       |-> CASE k = "wins" -> TheValue(w) [] k = "draws" -> TheValue(d)
             [] OTHER -> TheValue(l)]

FixturesDicts ==
    {FixturesOf(w, d, l) : w \in Opt(TotalDicts), d \in Opt(TotalDicts),
                           l \in Opt(TotalDicts)}

\* {"total": {"total": n}}, with either level absent
GoalSideDicts == {<< >>} \cup {[total |-> t] : t \in TotalDicts}

\* the dict of `goals`, each of for, against present or absent
GoalsOf(f, a) ==
    [k \in {x \in {"for", "against"} :
               CASE x = "for" -> f # {} [] OTHER -> a # {}}
       |-> CASE k = "for" -> TheValue(f) [] OTHER -> TheValue(a)]

GoalsDicts == {GoalsOf(f, a) : f \in Opt(GoalSideDicts), a \in Opt(GoalSideDicts)}

\* a team-statistics dict, each of form, fixtures, goals present or absent;
\* team, when present, is a key the scoring does not read
TeamStatsOf(form, fixtures, goals, team) ==
    [k \in {x \in {"form", "fixtures", "goals", "team"} :
               CASE x = "form" -> form # {} [] x = "fixtures" -> fixtures # {}
                 [] x = "goals" -> goals # {} [] OTHER -> team # {}}
       |-> CASE k = "form" -> TheValue(form) [] k = "fixtures" -> TheValue(fixtures)
             [] k = "goals" -> TheValue(goals) [] OTHER -> TheValue(team)]

FormAlphabet == {"W", "D", "L", "X", "5", "-"}

Forms == UNION {[1..n -> FormAlphabet] : n \in 0..MaxFormLen}

Totals(w, d, l) == [wins |-> [total |-> w], draws |-> [total |-> d], loses |-> [total |-> l]]

GoalTotals(f, a) == [for |-> [total |-> [total |-> f]], against |-> [total |-> [total |-> a]]]

\* the records calculate_score is applied to: every nesting of absent fields
\* under an empty or absent form, and every form over FormAlphabet
ScoreInputs ==
    {TeamStatsOf(form, fixtures, goals, {}) :
        form \in Opt({<< >>}), fixtures \in Opt(FixturesDicts), goals \in Opt(GoalsDicts)}
    \cup
    {TeamStatsOf({form}, fixtures, goals, {}) :
        form \in Forms,
        fixtures \in {{}, {Totals(1, 0, MaxTotal)}},
        goals \in {{}, {GoalTotals(MaxTotal, 1)}}}

\* the records predict_winner is applied to
PredictInputs ==
    {TeamStatsOf(form, {Totals(w, 1, l)}, goals, {}) :
        form \in {{}, {<<"W">>}, {<<"L", "L">>}, {<<"W", "X">>}},
        w \in 0..MaxTotal, l \in 0..1,
        goals \in {{}, {GoalTotals(1, 0)}, {GoalTotals(0, MaxTotal)}}}

(***************************************************************************)
(* The scoring function on its own: SpecScore.                             *)
(***************************************************************************)
Idle ==
    /\ now = <<FloorYear, 1, 1, 0>>
    /\ date_str = << >>
    /\ date_check = [ok |-> FALSE, msg |-> "none", val |-> <<0, 0, 0, 0>>]
    /\ leagues = << >>
    /\ league_options = {}
    /\ league_id = 0
    /\ matches = << >>
    /\ i = 0
    /\ results = << >>
    /\ requests = [leagues |-> 0, fixtures |-> 0, statistics |-> 0, teams |-> 0]
    /\ exit_msg = "none"
    /\ fault = "none"

NoScore == [ok |-> FALSE, val |-> 0, recent |-> 0]

InitScore ==
    /\ Idle
    /\ pc = "calculate_score"
    /\ home_team_stats \in ScoreInputs
    /\ away_team_stats = << >>
    /\ score = NoScore
    /\ prediction = NoPrediction

CalculateScore ==
    /\ pc = "calculate_score"
    /\ score' = calculate_score(home_team_stats)
    /\ pc' = "scored"
    /\ UNCHANGED <<now, date_str, date_check, leagues, league_options, league_id,
                   matches, i, home_team_stats, away_team_stats, prediction,
                   results, requests, exit_msg, fault>>

NextScore == CalculateScore

SpecScore == InitScore /\ [][NextScore]_vars

(***************************************************************************)
(* The comparator on its own: SpecPredict.                                 *)
(***************************************************************************)
InitPredict ==
    /\ Idle
    /\ pc = "predict_winner"
    /\ home_team_stats \in PredictInputs
    /\ away_team_stats \in PredictInputs
    /\ score = NoScore
    /\ prediction = NoPrediction

PredictWinner ==
    /\ pc = "predict_winner"
    /\ prediction' = predict_winner(home_team_stats, away_team_stats)
    /\ pc' = "predicted"
    /\ UNCHANGED <<now, date_str, date_check, leagues, league_options, league_id,
                   matches, i, home_team_stats, away_team_stats, score,
                   results, requests, exit_msg, fault>>

NextPredict == PredictWinner

SpecPredict == InitPredict /\ [][NextPredict]_vars

(***************************************************************************)
(* The date validator on its own: SpecDate.                                *)
(***************************************************************************)
YearTexts == {<<"2", "0", "1", "3">>, <<"2", "0", "1", "4">>, <<"2", "0", "1", "5">>, <<"2", "0", "1", "6">>, <<"2", "0", "1", "7">>, <<"0", "0", "0", "0">>, <<"2", "0", "1">>, <<"2", "0", "x", "5">>}

MonthTexts == {<<"0", "1">>, <<"1">>, <<"0", "2">>, <<"0", "6">>, <<"1", "2">>, <<"1", "3">>, <<"0", "0">>, << >>}

DayTexts == {<<"0", "1">>, <<"1">>, <<"1", "5">>, <<"2", "8">>, <<"2", "9">>, <<"3", "0">>, <<"3", "1">>, <<"3", "2">>, <<"0", "0">>, <<" ", "1">>}

\* strings tried as dates: year-month-day over the texts above, and strings
\* of another shape
DateTexts ==
    {y \o <<"-">> \o m \o <<"-">> \o d : y \in YearTexts, m \in MonthTexts, d \in DayTexts}
    \cup {<< >>, <<"a", "b", "c">>, <<"2", "0", "1", "5", "-", "0", "6">>, <<"2", "0", "1", "5", "-", "0", "6", "-", "1", "5", "-">>, <<"2", "0", "1", "5", "/", "0", "6", "/", "1", "5">>, <<"1", "5", "-", "0", "6", "-", "2", "0", "1", "5">>, <<"-", "2", "0", "1", "5", "-", "0", "6", "-", "1", "5">>}

\* readings of the clock; the program is run no earlier than the floor date
Clocks ==
    {<<FloorYear, 1, 1, 0>>, <<FloorYear, 1, 1, 1>>, <<2015, 6, 15, 1>>,
     <<2016, 2, 29, 0>>, <<2016, 12, 31, 1>>}

InitDate ==
    /\ pc = "validate_date"
    /\ now \in Clocks
    /\ date_str \in DateTexts
    /\ date_check = [ok |-> FALSE, msg |-> "none", val |-> <<0, 0, 0, 0>>]
    /\ leagues = << >>
    /\ league_options = {}
    /\ league_id = 0
    /\ matches = << >>
    /\ i = 0
    /\ home_team_stats = << >>
    /\ away_team_stats = << >>
    /\ score = NoScore
    /\ prediction = NoPrediction
    /\ results = << >>
    /\ requests = [leagues |-> 0, fixtures |-> 0, statistics |-> 0, teams |-> 0]
    /\ exit_msg = "none"
    /\ fault = "none"

ValidateDate ==
    /\ pc = "validate_date"
    /\ date_check' = validate_date(date_str, now)
    /\ pc' = "validated"
    /\ UNCHANGED <<now, date_str, leagues, league_options, league_id, matches, i,
                   home_team_stats, away_team_stats, score, prediction, results,
                   requests, exit_msg, fault>>

NextDate == ValidateDate

SpecDate == InitDate /\ [][NextDate]_vars

(***************************************************************************)
(* The API client.  An exchange is what requests.get and response.json     *)
(* yield: a timeout or transport failure, an HTTP error status, a body     *)
(* that does not decode, or the decoded body.                              *)
(***************************************************************************)
Failures == {[kind |-> k, body |-> << >>] : k \in {"timeout", "http_error", "bad_json"}}

Json(body) == [kind |-> "json", body |-> body]

\* safe_api_call: none is TRUE when it returns None
safe_api_call(x) ==
    IF x.kind = "json" THEN [none |-> FALSE, json |-> x.body]
    ELSE [none |-> TRUE, json |-> << >>]

get_leagues(x) ==
    LET data == safe_api_call(x)
    IN  IF ~data.none /\ Truthy(data.json) THEN Get(data.json, "response", << >>)
        ELSE << >>

\* ok is FALSE when strptime(date_str) raises before the request is made
get_matches(date, x) ==
    LET data == safe_api_call(x)
    IN  IF ~Strptime(date).ok THEN [ok |-> FALSE, val |-> << >>]
        ELSE IF ~data.none /\ Truthy(data.json)
        THEN [ok |-> TRUE, val |-> Get(data.json, "response", << >>)]
        ELSE [ok |-> TRUE, val |-> << >>]

get_match_stats(x) ==
    LET data == safe_api_call(x)
    IN  IF ~data.none /\ Truthy(data.json) THEN Get(data.json, "response", << >>)
        ELSE << >>

get_team_form(x) ==
    LET data == safe_api_call(x)
    IN  IF ~data.none /\ Truthy(data.json) THEN Get(data.json, "response", << >>)
        ELSE << >>

(***************************************************************************)
(* What the API and the user may supply to main.                           *)
(***************************************************************************)
League(id) == [league |-> [id |-> id, name |-> "league"], country |-> [name |-> "country"]]

\* a decoded body without the response field
NoResponse == [errors |-> "denied"]

LeagueExchanges ==
    Failures
    \cup {Json(<< >>), Json(NoResponse), Json([response |-> << >>]),
          Json([response |-> <<League(39), League(140)>>]),
          Json([response |-> <<League(39), [country |-> [name |-> "country"]]>>])}

Match ==
    [fixture |-> [id |-> 1],
     teams |-> [home |-> [id |-> 1, name |-> "Team A"],
                away |-> [id |-> 2, name |-> "Team B"]]]

\* match items lacking a field main reads
MatchNoFixture == [teams |-> Match.teams]

MatchNoAwayId == [fixture |-> Match.fixture,
                  teams |-> [home |-> Match.teams.home, away |-> [name |-> "Team B"]]]

MatchItems == {Match, MatchNoFixture, MatchNoAwayId}

MatchLists == UNION {[1..n -> MatchItems] : n \in 1..MaxMatches}

MatchExchanges ==
    {[kind |-> "timeout", body |-> << >>], Json(NoResponse), Json([response |-> << >>])}
    \cup {Json([response |-> l]) : l \in MatchLists}

TeamStatistics == [team |-> [name |-> "Team A"],
                   statistics |-> <<[type |-> "Shots", value |-> 3]>>]

StatsExchanges ==
    {[kind |-> "bad_json", body |-> << >>], Json([response |-> << >>]),
     Json([response |-> <<TeamStatistics>>]),
     Json([response |-> <<[team |-> [name |-> "Team A"]]>>])}

TeamA == TeamStatsOf({<<"W", "W", "W", "D", "L">>}, {Totals(10, 2, 3)},
                     {GoalTotals(30, 10)}, {1})

TeamB == TeamStatsOf({<<"L", "L", "D", "W", "W">>}, {Totals(5, 5, 5)},
                     {GoalTotals(20, 20)}, {2})

\* a response with none of the fields the scoring reads
TeamBare == TeamStatsOf({}, {}, {}, {3})

\* a response whose form holds a character other than W, D, L
TeamOddForm == TeamStatsOf({<<"W", "X">>}, {Totals(1, 0, 0)}, {}, {4})

TeamExchanges ==
    {[kind |-> "timeout", body |-> << >>], Json(NoResponse), Json([response |-> << >>])}
    \cup {Json([response |-> t]) : t \in {TeamA, TeamB, TeamBare, TeamOddForm}}

\* lines typed at the date prompt
DateEntries == {<< >>, <<" ", "2", "0", "1", "5", "-", "0", "6", "-", "1", "5", " ">>, <<"2", "0", "1", "3", "-", "1", "2", "-", "3", "1">>, <<"2", "0", "1", "7", "-", "0", "1", "-", "0", "1">>, <<"J", "u", "n", "e">>}

\* lines typed at the league prompt
LeagueEntries == {<<"a", "b", "c">>, <<"-", "3">>, <<"0">>, <<" ", "3", "9">>, <<"7">>}

MainClocks == {<<2015, 6, 15, 1>>, <<2016, 2, 29, 0>>}

(***************************************************************************)
(* main                                                                    *)
(***************************************************************************)
LeagueItemOk(item) ==
    /\ {"league", "country"} \subseteq DOMAIN item
    /\ {"id", "name"} \subseteq DOMAIN item.league
    /\ "name" \in DOMAIN item.country

\* the keys of a match read before the statistics request (lines 220-226)
MatchItemOk(item) ==
    /\ {"fixture", "teams"} \subseteq DOMAIN item
    /\ "id" \in DOMAIN item.fixture
    /\ {"home", "away"} \subseteq DOMAIN item.teams
    /\ "name" \in DOMAIN item.teams.home
    /\ "name" \in DOMAIN item.teams.away

StatsItemOk(item) ==
    /\ {"team", "statistics"} \subseteq DOMAIN item
    /\ "name" \in DOMAIN item.team
    /\ \A k \in 1..Len(item.statistics) :
           {"type", "value"} \subseteq DOMAIN item.statistics[k]

\* league_exists without the membership test
league_exists_Always(id, options) == TRUE

\* any(league['id'] == league_id for league in league_options)
league_exists(id, options) == id \in options

Init ==
    /\ pc = "AWAIT_DATE"
    /\ now \in MainClocks
    /\ date_str = << >>
    /\ date_check = [ok |-> FALSE, msg |-> "none", val |-> <<0, 0, 0, 0>>]
    /\ leagues = << >>
    /\ league_options = {}
    /\ league_id = 0
    /\ matches = << >>
    /\ i = 0
    /\ home_team_stats = << >>
    /\ away_team_stats = << >>
    /\ score = NoScore
    /\ prediction = NoPrediction
    /\ results = << >>
    /\ requests = [leagues |-> 0, fixtures |-> 0, statistics |-> 0, teams |-> 0]
    /\ exit_msg = "none"
    /\ fault = "none"

\* lines 159-169: one pass of the date prompt loop
PromptDate ==
    /\ pc = "AWAIT_DATE"
    /\ \E entered \in DateEntries :
         LET typed == Strip(entered)
             s == IF typed = << >> THEN Strftime(now) ELSE typed
             r == validate_date(s, now)
         IN  /\ date_str' = s
             /\ date_check' = r
             /\ pc' = IF r.ok THEN "LIST_LEAGUES" ELSE "AWAIT_DATE"
    /\ UNCHANGED <<now, leagues, league_options, league_id, matches, i,
                   home_team_stats, away_team_stats, score, prediction, results,
                   requests, exit_msg, fault>>

\* lines 171-190: fetch the leagues, return if there are none, list them
FetchLeagues ==
    /\ pc = "LIST_LEAGUES"
    /\ \E x \in LeagueExchanges :
         LET got == get_leagues(x)
         IN  /\ requests' = [requests EXCEPT !.leagues = @ + 1]
             /\ leagues' = got
             /\ IF ~Truthy(got)
                THEN /\ pc' = "EXIT"
                     /\ exit_msg' = "LEAGUES_FAILED"
                     /\ UNCHANGED <<league_options, fault>>
                ELSE IF \E k \in 1..Len(got) : ~LeagueItemOk(got[k])
                THEN /\ pc' = "CRASHED"
                     /\ fault' = "KeyError"
                     /\ UNCHANGED <<league_options, exit_msg>>
                ELSE /\ league_options' = {got[k].league.id : k \in 1..Len(got)}
                     /\ pc' = "AWAIT_LEAGUE"
                     /\ UNCHANGED <<exit_msg, fault>>
    /\ UNCHANGED <<now, date_str, date_check, league_id, matches, i,
                   home_team_stats, away_team_stats, score, prediction, results>>

\* lines 193-207: one pass of the league prompt loop, and the check that
\* follows it once the input is valid
PromptLeague ==
    /\ pc = "AWAIT_LEAGUE"
    /\ \E entered \in LeagueEntries :
         LET r == validate_league_id(Strip(entered))
         IN  IF ~r.ok
             THEN UNCHANGED <<pc, league_id, exit_msg>>
             ELSE /\ league_id' = r.val
                  /\ IF league_exists(r.val, league_options)
                     THEN pc' = "FETCH_MATCHES" /\ UNCHANGED exit_msg
                     ELSE pc' = "EXIT" /\ exit_msg' = "LEAGUE_NOT_FOUND"
    /\ UNCHANGED <<now, date_str, date_check, leagues, league_options, matches, i,
                   home_team_stats, away_team_stats, score, prediction, results,
                   requests, fault>>

\* lines 209-217: fetch the fixtures, return if there are none
FetchMatches ==
    /\ pc = "FETCH_MATCHES"
    /\ \E x \in MatchExchanges :
         LET got == get_matches(date_str, x)
         IN  IF ~got.ok
             THEN /\ pc' = "CRASHED"
                  /\ fault' = "ValueError"
                  /\ UNCHANGED <<matches, i, requests, exit_msg>>
             ELSE /\ requests' = [requests EXCEPT !.fixtures = @ + 1]
                  /\ matches' = got.val
                  /\ IF ~Truthy(got.val)
                     THEN pc' = "EXIT" /\ exit_msg' = "NO_MATCHES" /\ UNCHANGED i
                     ELSE pc' = "FETCH_STATS" /\ i' = 1 /\ UNCHANGED exit_msg
                  /\ UNCHANGED fault
    /\ UNCHANGED <<now, date_str, date_check, leagues, league_options, league_id,
                   home_team_stats, away_team_stats, score, prediction, results>>

\* lines 219-239: read the match, fetch and print its statistics
FetchStats ==
    /\ pc = "FETCH_STATS"
    /\ IF ~MatchItemOk(matches[i])
       THEN /\ pc' = "CRASHED"
            /\ fault' = "KeyError"
            /\ UNCHANGED requests
       ELSE \E x \in StatsExchanges :
              LET stats == get_match_stats(x)
              IN  /\ requests' = [requests EXCEPT !.statistics = @ + 1]
                  /\ IF Truthy(stats) /\ \E k \in 1..Len(stats) : ~StatsItemOk(stats[k])
                     THEN pc' = "CRASHED" /\ fault' = "KeyError"
                     ELSE pc' = "FETCH_FORMS" /\ UNCHANGED fault
    /\ UNCHANGED <<now, date_str, date_check, leagues, league_options, league_id,
                   matches, i, home_team_stats, away_team_stats, score, prediction,
                   results, exit_msg>>

\* lines 241-244: the two team-statistics requests
FetchForms ==
    /\ pc = "FETCH_FORMS"
    /\ LET teams == matches[i].teams
       IN  IF "id" \notin DOMAIN teams.home
           THEN /\ pc' = "CRASHED"
                /\ fault' = "KeyError"
                /\ UNCHANGED <<requests, home_team_stats, away_team_stats>>
           ELSE \E xh \in TeamExchanges :
                  /\ home_team_stats' = get_team_form(xh)
                  /\ IF "id" \notin DOMAIN teams.away
                     THEN /\ pc' = "CRASHED"
                          /\ fault' = "KeyError"
                          /\ requests' = [requests EXCEPT !.teams = @ + 1]
                          /\ UNCHANGED away_team_stats
                     ELSE \E xa \in TeamExchanges :
                            /\ away_team_stats' = get_team_form(xa)
                            /\ requests' = [requests EXCEPT !.teams = @ + 2]
                            /\ pc' = "SCORE_AND_PREDICT"
                            /\ UNCHANGED fault
    /\ UNCHANGED <<now, date_str, date_check, leagues, league_options, league_id,
                   matches, i, score, prediction, results, exit_msg>>

\* lines 246-250, and the step of the for loop to the next match
ScoreAndPredict ==
    /\ pc = "SCORE_AND_PREDICT"
    /\ LET p == predict_winner(home_team_stats, away_team_stats)
           more == i < Len(matches)
       IN  IF Truthy(home_team_stats) /\ Truthy(away_team_stats)
           THEN IF ~p.ok
                THEN /\ pc' = "CRASHED"
                     /\ fault' = "ValueError"
                     /\ UNCHANGED <<prediction, results, i>>
                ELSE /\ prediction' = p
                     /\ results' = Append(results, "prediction")
                     /\ i' = IF more THEN i + 1 ELSE i
                     /\ pc' = IF more THEN "FETCH_STATS" ELSE "DONE"
                     /\ UNCHANGED fault
           ELSE /\ results' = Append(results, "not_available")
                /\ i' = IF more THEN i + 1 ELSE i
                /\ pc' = IF more THEN "FETCH_STATS" ELSE "DONE"
                /\ UNCHANGED <<prediction, fault>>
    /\ UNCHANGED <<now, date_str, date_check, leagues, league_options, league_id,
                   matches, home_team_stats, away_team_stats, score, requests,
                   exit_msg>>

Next ==
    \/ PromptDate
    \/ FetchLeagues
    \/ PromptLeague
    \/ FetchMatches
    \/ FetchStats
    \/ FetchForms
    \/ ScoreAndPredict

Spec == Init /\ [][Next]_vars

(***************************************************************************)
(* Properties.                                                             *)
(***************************************************************************)
\* the number at the end of a path of keys, 0 when a key on the way is absent
RECURSIVE FieldOr0(_, _)
FieldOr0(d, path) ==
    IF path = << >> THEN d
    ELSE IF Head(path) \in DOMAIN d THEN FieldOr0(d[Head(path)], Tail(path))
    ELSE 0

Count(s, c) == Cardinality({k \in 1..Len(s) : s[k] = c})

FormOf(team_stats) == IF "form" \in DOMAIN team_stats THEN team_stats.form ELSE << >>

\* C1: for a record whose form is empty or absent, with every absent field
\* (at any depth) counted as 0, calculate_score returns
\* 3w + d - l + 0.5gf - 0.5ga (here in half points); a record with every
\* field absent scores 0.
C1_ScoreOfTotals ==
    (pc = "scored" /\ FormOf(home_team_stats) = << >>) =>
        LET w == FieldOr0(home_team_stats, <<"fixtures", "wins", "total">>)
            d == FieldOr0(home_team_stats, <<"fixtures", "draws", "total">>)
            l == FieldOr0(home_team_stats, <<"fixtures", "loses", "total">>)
            gf == FieldOr0(home_team_stats, <<"goals", "for", "total", "total">>)
            ga == FieldOr0(home_team_stats, <<"goals", "against", "total", "total">>)
        IN  /\ score.ok
            /\ score.val = 6 * w + 2 * d - 2 * l + gf - ga
            /\ (DOMAIN home_team_stats = {} => score.val = 0)

\* a record with no form, wins and goals against present, draws without its
\* total and goals for without its inner total has been scored
C1_Witness ==
    /\ pc = "scored"
    /\ "form" \notin DOMAIN home_team_stats
    /\ FieldOr0(home_team_stats, <<"fixtures", "wins", "total">>) = MaxTotal
    /\ FieldOr0(home_team_stats, <<"fixtures", "loses", "total">>) = 1
    /\ FieldOr0(home_team_stats, <<"goals", "against", "total", "total">>) = 1
    /\ "draws" \in DOMAIN home_team_stats.fixtures
    /\ "total" \notin DOMAIN home_team_stats.fixtures.draws
    /\ "for" \in DOMAIN home_team_stats.goals
    /\ "total" \in DOMAIN home_team_stats.goals.for
    /\ "total" \notin DOMAIN home_team_stats.goals.for.total
    /\ score.val = 6 * MaxTotal - 2 - 1

\* C2: for every form string calculate_score does not raise and its
\* recent-form component is 3 x (number of W) + (number of D) - (number of
\* L), other characters contributing nothing.
C2_FormComponent ==
    pc = "scored" =>
        LET form == FormOf(home_team_stats)
        IN  /\ score.ok
            /\ score.recent = 3 * Count(form, "W") + Count(form, "D") - Count(form, "L")

\* C3: predict_winner yields the home-win text iff the home score is the
\* greater, the away-win text iff the away score is the greater and the draw
\* text iff the two are equal, and always one of the three.
C3_OutcomeByComparison ==
    LET home_score == calculate_score(home_team_stats)
        away_score == calculate_score(away_team_stats)
    IN  (pc = "predicted" /\ home_score.ok /\ away_score.ok) =>
            /\ prediction.ok
            /\ prediction.outcome \in {"HOME_WIN", "AWAY_WIN", "DRAW"}
            /\ (prediction.outcome = "HOME_WIN" <=> home_score.val > away_score.val)
            /\ (prediction.outcome = "AWAY_WIN" <=> away_score.val > home_score.val)
            /\ (prediction.outcome = "DRAW" <=> home_score.val = away_score.val)

\* two different records of equal score have been compared
C3_Witness ==
    /\ pc = "predicted"
    /\ prediction.ok
    /\ prediction.outcome = "DRAW"
    /\ home_team_stats # away_team_stats

\* C9 as stated: the text holds the home score first and the away score
\* second for every outcome.
C9_HomeScoreFirst ==
    (pc = "predicted" /\ prediction.ok) =>
        /\ prediction.X = calculate_score(home_team_stats).val
        /\ prediction.Y = calculate_score(away_team_stats).val

\* C9 as amended: the text holds the home score first for a home win and a
\* draw, and the away score first for an away win.
C9_WinnerScoreFirst ==
    (pc = "predicted" /\ prediction.ok) =>
        LET home_score == calculate_score(home_team_stats).val
            away_score == calculate_score(away_team_stats).val
        IN  /\ prediction.outcome \in {"HOME_WIN", "DRAW"} =>
                prediction.X = home_score /\ prediction.Y = away_score
            /\ prediction.outcome = "AWAY_WIN" =>
                prediction.X = away_score /\ prediction.Y = home_score

\* an away win has been predicted
C9_Witness ==
    /\ pc = "predicted"
    /\ prediction.ok
    /\ prediction.outcome = "AWAY_WIN"
    /\ prediction.X = calculate_score(away_team_stats).val
    /\ prediction.X > prediction.Y

\* C5: validate_date rejects a string that does not parse as INVALID_FORMAT,
\* a parsed date later than now as FUTURE_DATE, a parsed date before
\* 2014-01-01 as TOO_OLD, and accepts every other parsed date, returning it;
\* exactly one of the four applies.
C5_DatePartition ==
    pc = "validated" =>
        LET parsed == Strptime(date_str)
            floor == <<FloorYear, 1, 1, 0>>
            future == parsed.ok /\ Later(parsed.val, now)
            old == parsed.ok /\ Later(floor, parsed.val)
        IN  /\ ~parsed.ok => ~date_check.ok /\ date_check.msg = "INVALID_FORMAT"
            /\ future => ~date_check.ok /\ date_check.msg = "FUTURE_DATE"
            /\ old => ~date_check.ok /\ date_check.msg = "TOO_OLD"
            /\ (parsed.ok /\ ~future /\ ~old) =>
                   date_check.ok /\ date_check.val = parsed.val
            /\ ~(future /\ old)

\* the date of the clock's reading, read at midnight, has been accepted
C5_Witness ==
    /\ pc = "validated"
    /\ date_check.ok
    /\ date_check.val = now
    /\ now # <<FloorYear, 1, 1, 0>>

\* the last match processed by main was Team A at home against Team B
TeamAHostedTeamB ==
    /\ pc \in {"FETCH_STATS", "DONE"}
    /\ results # << >>
    /\ home_team_stats = TeamA
    /\ away_team_stats = TeamB

\* C4 as stated: for Team A at home against Team B the run prints a home-win
\* prediction with Team A's score 39 and Team B's score 15.
C4_Scores39And15 ==
    TeamAHostedTeamB =>
        /\ results[Len(results)] = "prediction"
        /\ prediction = [ok |-> TRUE, outcome |-> "HOME_WIN",
                         X |-> 39 * Unit, Y |-> 15 * Unit]

\* C4 as amended: for Team A at home against Team B the run prints a home-win
\* prediction with Team A's score 48 and Team B's score 20, the recent-form
\* components 9 and 5 included.
C4_Scores48And20 ==
    TeamAHostedTeamB =>
        /\ results[Len(results)] = "prediction"
        /\ prediction = [ok |-> TRUE, outcome |-> "HOME_WIN",
                         X |-> 48 * Unit, Y |-> 20 * Unit]

\* a run over the one match Team A against Team B has ended
C4_Witness ==
    /\ TeamAHostedTeamB
    /\ pc = "DONE"
    /\ Len(matches) = 1
    /\ Len(leagues) = 2
    /\ prediction.outcome = "HOME_WIN"

\* the steps from one phase of main to another, and the two prompts' retries
PhaseSteps ==
    {<<"AWAIT_DATE", "AWAIT_DATE">>, <<"AWAIT_DATE", "LIST_LEAGUES">>,
     <<"LIST_LEAGUES", "AWAIT_LEAGUE">>,
     <<"AWAIT_LEAGUE", "AWAIT_LEAGUE">>, <<"AWAIT_LEAGUE", "FETCH_MATCHES">>,
     <<"FETCH_MATCHES", "FETCH_STATS">>,
     <<"FETCH_STATS", "FETCH_FORMS">>,
     <<"FETCH_FORMS", "SCORE_AND_PREDICT">>,
     <<"SCORE_AND_PREDICT", "FETCH_STATS">>, <<"SCORE_AND_PREDICT", "DONE">>}

Stopped == {"DONE", "EXIT", "CRASHED"}

RequestsIssued ==
    requests.leagues + requests.fixtures + requests.statistics + requests.teams

\* C6: the phases of main follow one another only in the order AWAIT_DATE,
\* LIST_LEAGUES, AWAIT_LEAGUE, FETCH_MATCHES, then per match FETCH_STATS,
\* FETCH_FORMS, SCORE_AND_PREDICT (the next match's FETCH_STATS following
\* only while a match is left, DONE only when none is), a run leaving the
\* order only to stop; no request is issued before a date passed validation,
\* and no fixtures request before a valid league id found in the fetched list.
C6_PhaseOrder ==
    /\ [][\/ <<pc, pc'>> \in PhaseSteps
          \/ pc' \in {"EXIT", "CRASHED"} /\ pc \notin Stopped]_pc
    /\ [][pc = "SCORE_AND_PREDICT" =>
            /\ pc' = "FETCH_STATS" => i < Len(matches) /\ i' = i + 1
            /\ pc' = "DONE" => i = Len(matches)]_pc
    /\ [](RequestsIssued > 0 => date_check.ok /\ Strptime(date_str).ok)
    /\ [](requests.fixtures > 0 =>
            /\ league_id > 0
            /\ \E k \in 1..Len(leagues) : leagues[k].league.id = league_id)
    /\ [](requests.statistics > 0 => requests.fixtures > 0)
    /\ [](requests.teams > 0 => requests.statistics > 0)

\* a run over two matches or more has reached DONE
C6_Witness ==
    /\ pc = "DONE"
    /\ Len(results) >= 2
    /\ Len(results) = Len(matches)

\* C7: the step that follows the two team-statistics fetches produces a
\* prediction iff both returned non-empty data, prints the not-available
\* message otherwise, and either way goes on to the next match or to DONE.
C7_PredictionIffBothStats ==
    [][pc = "SCORE_AND_PREDICT" =>
         /\ Len(results') = Len(results) + 1
         /\ (results'[Len(results')] = "prediction"
               <=> Truthy(home_team_stats) /\ Truthy(away_team_stats))
         /\ (results'[Len(results')] = "not_available"
               <=> ~(Truthy(home_team_stats) /\ Truthy(away_team_stats)))
         /\ pc' \in {"FETCH_STATS", "DONE"}]_vars

\* C8: whatever the API calls yield, no fault escapes main: it ends at DONE
\* or at one of the early returns.
C8_NoFaultEscapes == fault = "none" /\ pc # "CRASHED"

\* C10: a run that has stopped has reached DONE or an early return, having
\* issued one leagues request, at most one fixtures request, and one
\* fixture-statistics and two team-statistics requests per match.
C10_StopsAtDoneOrExit ==
    pc \in Stopped =>
        /\ pc \in {"DONE", "EXIT"}
        /\ requests.leagues = 1
        /\ requests.fixtures <= 1
        /\ requests.statistics = Len(results)
        /\ requests.teams = 2 * Len(results)
        /\ pc = "DONE" => Len(results) = Len(matches)

====
